---- MODULE Spec2Model ----
(***************************************************************************)
(* Model of the nutrition widget (src/app/nmacros/page.tsx, component      *)
(* Macros) and of the analyze_food tool handler registered in the same     *)
(* file.  JavaScript values are tagged records so that the code's          *)
(* truthiness tests, optional chaining and `in` tests can be computed the  *)
(* way the runtime computes them.                                          *)
(***************************************************************************)
EXTENDS Integers, Sequences, FiniteSets, TLC

VARIABLES toolOutput, isLoading, mealData, error, view, effectPending,
          showBreakdown,
          request, response, strategy, route, apiKey, fetches, upstream,
          halves, displayed, calls

vars == <<toolOutput, isLoading, mealData, error, view, effectPending,
          showBreakdown,
          request, response, strategy, route, apiKey, fetches, upstream,
          halves, displayed, calls>>

clientVars == <<toolOutput, isLoading, mealData, error, view, effectPending,
                showBreakdown>>
serverVars == <<request, response, strategy, route, apiKey, fetches, upstream>>
displayVars == <<halves, displayed>>

(***************************************************************************)
(* Bounds                                                                  *)
(***************************************************************************)
\* longest loggedMeals list that is enumerated
MaxMeals == 2

(***************************************************************************)
(* JavaScript values                                                       *)
(***************************************************************************)
Undef == [t |-> "undefined"]
Null == [t |-> "null"]
Str(s) == [t |-> "string", s |-> s]
Num(n) == [t |-> "number", n |-> n]
Arr(a) == [t |-> "array", a |-> a]
Obj(f) == [t |-> "object", f |-> f]

\* marker used only while enumerating objects: the key is not set at all
Absent == [t |-> "absent"]

\* the object whose keys are the fields of g that are set
ObjOf(g) == Obj([k \in {j \in DOMAIN g : g[j] # Absent} |-> g[k]])

\* JavaScript ToBoolean
Truthy(v) ==
  CASE v.t = "undefined" -> FALSE
    [] v.t = "null" -> FALSE
    [] v.t = "string" -> v.s # ""
    [] v.t = "number" -> v.n # 0
    [] OTHER -> TRUE

\* typeof v === 'object'
TypeofObject(v) == v.t \in {"object", "array", "null"}

\* k in v, for a v on which the in operator is defined
HasKey(k, v) == v.t = "object" /\ k \in DOMAIN v.f

\* the in operator raises a TypeError on a primitive right operand
InRaises(v) == v.t \notin {"object", "array"}

\* v.k on a value that is neither null nor undefined
Get(v, k) == IF HasKey(k, v) THEN v.f[k] ELSE Undef

\* v?.k
OptGet(v, k) == IF v.t \in {"undefined", "null"} THEN Undef ELSE Get(v, k)

\* a || b
OrElse(a, b) == IF Truthy(a) THEN a ELSE b

IsArray(v) == v.t = "array"

\* v is undefined or null: reading a property of v raises a TypeError
Nullish(v) == v.t \in {"undefined", "null"}

\* v.length is a number
HasLength(v) == v.t \in {"array", "string"}

\* v.length, for a v that has one
LengthOf(v) == IF v.t = "array" THEN Len(v.a) ELSE Len(v.s)

(***************************************************************************)
(* Canonical data (interfaces Nutrients, Ingredient, Meal, MealData)       *)
(***************************************************************************)
Nutrients(c, p, cb, f) ==
  Obj([calories |-> Num(c), protein |-> Num(p), carbs |-> Num(cb), fat |-> Num(f)])

Ingredient(j) ==
  Obj([name |-> Str("ingredient"), serving_info |-> Str("1 serving"),
       nutrients |-> Nutrients(100 * j, 10 * j, 20 * j, 5 * j)])

\* the i-th meal of a list has i ingredients
Meal(i) ==
  Obj([meal_name |-> Str("meal"),
       ingredients |-> Arr([j \in 1..i |-> Ingredient(j)]),
       total_nutrients |-> Nutrients(657 * i, 30 * i, 62 * i, 35 * i)])

MealList(n) == Arr([i \in 1..n |-> Meal(i)])

MealLists == {MealList(n) : n \in 0..MaxMeals}

DailyTotals == Nutrients(657, 30, 62, 35)

\* values of the error field one level below the envelope
NestedErrors == {Absent, Str(""), Str("rate limited")}

\* objects that can sit at structuredContent
NestedData ==
  {ObjOf([error |-> e, loggedMeals |-> m]) :
     e \in NestedErrors, m \in {Absent, MealList(MaxMeals)}}

\* what the envelope holds at structuredContent
StructuredContents == {Absent, Null} \cup NestedData

\* what the envelope holds at result: nothing, a primitive, a MealData, or
\* an object with a structuredContent of its own
Results ==
  {Absent, Str("ok"),
   ObjOf([error |-> Str("quota exceeded"), loggedMeals |-> MealList(1)]),
   ObjOf([structuredContent |-> Null, loggedMeals |-> MealList(0)]),
   ObjOf([structuredContent |-> ObjOf([error |-> Null, loggedMeals |-> MealList(1)])])}

\* values of the envelope's own error field
EnvelopeErrors == {Absent, Str(""), Str("upstream failed")}

\* the non-null objects the host can deliver
EnvelopeObjects ==
  {ObjOf([result |-> r, structuredContent |-> sc, error |-> e,
          loggedMeals |-> m, dailyTotals |-> d, foodDescription |-> fd]) :
     r \in Results, sc \in StructuredContents, e \in EnvelopeErrors,
     m \in {Absent, MealList(0), MealList(MaxMeals)}, d \in {Absent, DailyTotals},
     fd \in {Absent, Str("pizza and burger")}}

\* the values the host can deliver as toolOutput
Envelopes == {Null, Str("not an object")} \cup EnvelopeObjects

\* every value useWidgetProps can hand to the component: a delivered value,
\* or nothing at all
WidgetProps == {Undef} \cup Envelopes

(***************************************************************************)
(* Macros: normalisation of the envelope                                   *)
(***************************************************************************)
Returned(v) == [raised |-> FALSE, value |-> v]
Raised == [raised |-> TRUE, value |-> Undef]

\* mutant: the top-level structuredContent is probed before result.structuredContent
ExtractMealData_topFirst(out) ==
  LET rsc == OptGet(OptGet(out, "result"), "structuredContent")
      sc == OptGet(out, "structuredContent")
      res == OptGet(out, "result")
  IN  IF Truthy(sc) THEN Returned(sc)
      ELSE IF Truthy(rsc) THEN Returned(rsc)
      ELSE IF Truthy(res) THEN Returned(res)
      ELSE IF Truthy(out) /\ TypeofObject(out)
           THEN IF InRaises(out) THEN Raised
                ELSE IF HasKey("loggedMeals", out) \/ HasKey("dailyTotals", out)
                     THEN Returned(out)
                     ELSE Returned(Null)
      ELSE Returned(Null)

\* mutant: any object envelope is taken as MealData, without the in tests
ExtractMealData_noInTest(out) ==
  LET rsc == OptGet(OptGet(out, "result"), "structuredContent")
      sc == OptGet(out, "structuredContent")
      res == OptGet(out, "result")
  IN  IF Truthy(rsc) THEN Returned(rsc)
      ELSE IF Truthy(sc) THEN Returned(sc)
      ELSE IF Truthy(res) THEN Returned(res)
      ELSE IF Truthy(out) /\ TypeofObject(out) THEN Returned(out)
      ELSE Returned(Null)

\* the chain of path probes that assigns mealData
ExtractMealData(out) ==
  LET rsc == OptGet(OptGet(out, "result"), "structuredContent")
      sc == OptGet(out, "structuredContent")
      res == OptGet(out, "result")
  IN  IF Truthy(rsc) THEN Returned(rsc)
      ELSE IF Truthy(sc) THEN Returned(sc)
      ELSE IF Truthy(res) THEN Returned(res)
      ELSE IF Truthy(out) /\ TypeofObject(out)
           THEN IF InRaises(out) THEN Raised
                ELSE IF HasKey("loggedMeals", out) \/ HasKey("dailyTotals", out)
                     THEN Returned(out)
                     ELSE Returned(Null)
      ELSE Returned(Null)

\* mutant: the envelope-level error is read first
ExtractError_envelopeFirst(md, out) ==
  OrElse(OptGet(out, "error"), OptGet(md, "error"))

\* mutant: only the error of the MealData is read
ExtractError_mealDataOnly(md, out) == OptGet(md, "error")

\* const error = mealData?.error || toolOutput?.error
ExtractError(md, out) == OrElse(OptGet(md, "error"), OptGet(out, "error"))

\* const meals = mealData?.loggedMeals || []
DeriveMeals(md) == OrElse(OptGet(md, "loggedMeals"), Arr(<<>>))

(***************************************************************************)
(* Macros: the loading effect and the render                               *)
(***************************************************************************)

\* mutant: only a null envelope keeps the widget loading
LoadingEffect_nullOnly(out, meals) ==
  IF HasLength(meals) /\ LengthOf(meals) > 0 THEN FALSE
  ELSE IF out = Null THEN TRUE
  ELSE FALSE

\* the value the effect passes to setIsLoading
LoadingEffect(out, meals) ==
  IF HasLength(meals) /\ LengthOf(meals) > 0 THEN FALSE
  ELSE IF out = Null THEN TRUE
  ELSE IF Truthy(out) /\ TypeofObject(out)
          /\ HasKey("foodDescription", out)
          /\ ~ (/\ HasKey("loggedMeals", out)
                /\ IsArray(Get(out, "loggedMeals"))
                /\ LengthOf(Get(out, "loggedMeals")) > 0)
       THEN TRUE
  ELSE FALSE

\* MealCard reads meal.ingredients.length and meal.total_nutrients.calories
MealCardRaises(meal) ==
  \/ meal.t \in {"undefined", "null"}
  \/ Get(meal, "ingredients").t \in {"undefined", "null"}
  \/ Get(meal, "total_nutrients").t \in {"undefined", "null"}

\* mutant: the loading branch is tested before the error branch
RenderState_loadingFirst(err, loading, meals) ==
  IF loading THEN "Loading"
  ELSE IF Truthy(err) THEN "Error"
  ELSE IF HasLength(meals) /\ LengthOf(meals) = 0 THEN "Empty"
  ELSE IF ~ IsArray(meals) THEN "Crash"
  ELSE IF \E i \in 1..Len(meals.a) : MealCardRaises(meals.a[i]) THEN "Crash"
  ELSE "Ready"

\* the branch of the component's return that is taken
RenderState(err, loading, meals) ==
  IF Truthy(err) THEN "Error"
  ELSE IF loading THEN "Loading"
  ELSE IF HasLength(meals) /\ LengthOf(meals) = 0 THEN "Empty"
  ELSE IF ~ IsArray(meals) THEN "Crash"
  ELSE IF \E i \in 1..Len(meals.a) : MealCardRaises(meals.a[i]) THEN "Crash"
  ELSE "Ready"

(***************************************************************************)
(* Math.round on the nutrient values                                       *)
(***************************************************************************)
\* nutrient values are counted in halves: h stands for the number h / 2
MaxHalves == 4

\* the four fields of interface Nutrients
NutrientFields == {"calories", "protein", "carbs", "fat"}

\* the values tried: every half from -MaxHalves / 2 to MaxHalves / 2, and 56.5
HalfValues == (-MaxHalves..MaxHalves) \cup {113}

\* mutant: the fraction is cut off
MathRound_truncates(h) == IF h >= 0 THEN h \div 2 ELSE -((-h) \div 2)

\* Math.round(h / 2): the integer floor(h / 2 + 1 / 2), halves going up
MathRound(h) == (h + 1) \div 2

\* the text React writes for the number n (-0 is written as 0)
NumberText(n) == [digits |-> IF n < 0 THEN -n ELSE n, minus |-> n < 0]

\* no nutrient grid is on the page
DisplayIdle ==
  /\ halves = <<>>
  /\ displayed = <<>>

(***************************************************************************)
(* MealCard: what one card writes on the page                              *)
(***************************************************************************)
\* {Math.round(v)} for a field v of a Nutrients object
RoundedText(v) ==
  IF v.t = "number" THEN NumberText(MathRound(2 * v.n)) ELSE "NaN"

\* the four values of a nutrient grid
NutrientGrid(nutrients) ==
  [k \in NutrientFields |-> RoundedText(Get(nutrients, k))]

\* mutant: the meal's grid shows the sum of the ingredients' calories
CardContent_sumsIngredients(meal) ==
  LET ingredients == Get(meal, "ingredients").a
      Sum[j \in 0..Len(ingredients)] ==
        IF j = 0 THEN 0
        ELSE Sum[j - 1] + Get(Get(ingredients[j], "nutrients"), "calories").n
  IN  [name |-> Get(meal, "meal_name"),
       totals |-> [NutrientGrid(Get(meal, "total_nutrients"))
                     EXCEPT !["calories"] = NumberText(Sum[Len(ingredients)])],
       lines |-> [j \in 1..Len(ingredients) |->
                    [name |-> Get(ingredients[j], "name"),
                     serving_info |-> Get(ingredients[j], "serving_info"),
                     nutrients |-> NutrientGrid(Get(ingredients[j], "nutrients"))]]]

\* the name, the grid of total_nutrients and one line per ingredient, in
\* the order of meal.ingredients
CardContent(meal) ==
  LET ingredients == Get(meal, "ingredients").a
  IN  [name |-> Get(meal, "meal_name"),
       totals |-> NutrientGrid(Get(meal, "total_nutrients")),
       lines |-> [j \in 1..Len(ingredients) |->
                    [name |-> Get(ingredients[j], "name"),
                     serving_info |-> Get(ingredients[j], "serving_info"),
                     nutrients |-> NutrientGrid(Get(ingredients[j], "nutrients"))]]]

\* the blocks inside the element each branch of the return builds
RenderBlocks(st) ==
  CASE st = "Error" -> {"ErrorMessage"}
    [] st = "Loading" -> {"Spinner"}
    [] st = "Empty" -> {"NoMealData"}
    [] st = "Ready" -> {"MealCards"}
    [] OTHER -> {}

\* one execution of the component function
Render(out, loading) ==
  LET n == ExtractMealData(out)
      md == n.value
      err == ExtractError(md, out)
      meals == DeriveMeals(md)
      st == IF n.raised THEN "Crash" ELSE RenderState(err, loading, meals)
  IN  [mealData |-> md, error |-> err, meals |-> meals,
       view |-> [state |-> st,
                 message |-> IF st = "Error" THEN err ELSE Undef,
                 blocks |-> RenderBlocks(st),
                 cards |-> IF st = "Ready"
                           THEN [i \in 1..Len(meals.a) |-> CardContent(meals.a[i])]
                           ELSE <<>>]]

\* const hasMultipleIngredients = meal.ingredients.length > 1
HasMultipleIngredients(meal) == LengthOf(Get(meal, "ingredients")) > 1

\* the showBreakdown of the MealCards after the render r, prev being those
\* before it: a card rendered again under the same key keeps its state, a
\* card that is mounted starts from useState(false), and no card is mounted
\* outside the branch that maps the meals
MountCards(prev, r) ==
  IF r.view.state = "Ready"
  THEN [i \in 1..Len(r.meals.a) |-> IF i <= Len(prev) THEN prev[i] ELSE FALSE]
  ELSE <<>>

(***************************************************************************)
(* The widget as a state machine                                           *)
(***************************************************************************)

(***************************************************************************)
(* Invocations of the tool that are in progress together                   *)
(***************************************************************************)
MaxCalls == 2

Calls == 1..MaxCalls

\* the locals of one invocation of the callback
IdleCall ==
  [request |-> Undef, strategy |-> "none", response |-> Undef,
   fetches |-> 0, upstream |-> Undef]

\* no invocation is in progress
CallsIdle == calls = [c \in Calls |-> IdleCall]

ServerIdle ==
  /\ request = Undef
  /\ response = Undef
  /\ strategy = "none"
  /\ route = "page"
  /\ apiKey = Undef
  /\ fetches = 0
  /\ upstream = Undef

\* first render: useState(true), the hook's first value
Init ==
  /\ toolOutput \in WidgetProps
  /\ isLoading = TRUE
  /\ LET r == Render(toolOutput, TRUE)
     IN  /\ mealData = r.mealData
         /\ error = r.error
         /\ view = r.view
         /\ effectPending = (r.view.state # "Crash")
         /\ showBreakdown = MountCards(<<>>, r)
  /\ ServerIdle
  /\ DisplayIdle
  /\ CallsIdle

\* the host delivers a new envelope: the component renders it with the
\* isLoading left by the previous effect
EnvelopeArrives(env) ==
  /\ ~ effectPending
  /\ view.state # "Crash"
  /\ toolOutput' = env
  /\ LET r == Render(env, isLoading)
     IN  /\ mealData' = r.mealData
         /\ error' = r.error
         /\ view' = r.view
         /\ effectPending' = (r.view.state # "Crash")
         /\ showBreakdown' = MountCards(showBreakdown, r)
  /\ UNCHANGED <<isLoading, serverVars, displayVars, calls>>

\* mutant: the effect stores the flag and the component is not rendered again
RunLoadingEffect_noRerender ==
  /\ effectPending
  /\ isLoading' = LoadingEffect(toolOutput, DeriveMeals(mealData))
  /\ effectPending' = FALSE
  /\ UNCHANGED <<toolOutput, mealData, error, view, showBreakdown,
                 serverVars, displayVars, calls>>

\* the effect runs after the render; setIsLoading re-renders the component
RunLoadingEffect ==
  /\ effectPending
  /\ LET loading == LoadingEffect(toolOutput, DeriveMeals(mealData))
         r == Render(toolOutput, loading)
     IN  /\ isLoading' = loading
         /\ mealData' = r.mealData
         /\ error' = r.error
         /\ view' = r.view
         /\ showBreakdown' = MountCards(showBreakdown, r)
  /\ effectPending' = FALSE
  /\ UNCHANGED <<toolOutput, serverVars, displayVars, calls>>

Next ==
  \/ \E env \in WidgetProps : EnvelopeArrives(env)
  \/ RunLoadingEffect

Spec == Init /\ [][Next]_vars

\* the widget under a hook that never yields undefined
DeliveredInit == Init /\ toolOutput \in Envelopes

DeliveredNext ==
  \/ \E env \in Envelopes : EnvelopeArrives(env)
  \/ RunLoadingEffect

DeliveredSpec == DeliveredInit /\ [][DeliveredNext]_vars

(***************************************************************************)
(* The meal cards under the user's hand                                    *)
(***************************************************************************)
\* a meal list whose first meal has the most ingredients
ReversedMealList(n) == Arr([i \in 1..n |-> Meal(n + 1 - i)])

\* a meal list whose meals all have MaxMeals ingredients
FullMealList(n) == Arr([i \in 1..n |-> Meal(MaxMeals)])

\* loggedMeals values the renderer has to stand: well-formed lists, a value
\* that is not a list, and meals lacking a field MealCard reads
PresentedMeals ==
  MealLists
    \cup {ReversedMealList(MaxMeals), FullMealList(MaxMeals), Str("none"),
          Arr(<<Obj([meal_name |-> Str("meal"),
                     total_nutrients |-> Nutrients(657, 30, 62, 35)])>>),
          Arr(<<Obj([meal_name |-> Str("meal"),
                     ingredients |-> Arr(<<Ingredient(1)>>)])>>)}

PresentedEnvelopes ==
  {Null, Obj([error |-> Str("upstream failed")])}
    \cup {ObjOf([foodDescription |-> fd, dailyTotals |-> d, loggedMeals |-> m]) :
            fd \in {Absent, Str("pizza and burger")},
            d \in {Absent, DailyTotals},
            m \in {Absent} \cup PresentedMeals}

\* first render of one of these envelopes
PresenterInit ==
  /\ toolOutput \in PresentedEnvelopes
  /\ isLoading = TRUE
  /\ LET r == Render(toolOutput, TRUE)
     IN  /\ mealData = r.mealData
         /\ error = r.error
         /\ view = r.view
         /\ effectPending = (r.view.state # "Crash")
         /\ showBreakdown = MountCards(<<>>, r)
  /\ ServerIdle
  /\ DisplayIdle
  /\ CallsIdle

\* mutant: one showBreakdown shared by all the cards
ToggleBreakdown_shared(i) ==
  /\ ~ effectPending
  /\ view.state = "Ready"
  /\ i \in 1..Len(showBreakdown)
  /\ HasMultipleIngredients(DeriveMeals(mealData).a[i])
  /\ showBreakdown' = [j \in 1..Len(showBreakdown) |-> ~ showBreakdown[i]]
  /\ UNCHANGED <<toolOutput, isLoading, mealData, error, view, effectPending,
                 serverVars, displayVars, calls>>

\* onClick={() => setShowBreakdown(!showBreakdown)} on the card at position i
ToggleBreakdown(i) ==
  /\ ~ effectPending
  /\ view.state = "Ready"
  /\ i \in 1..Len(showBreakdown)
  /\ HasMultipleIngredients(DeriveMeals(mealData).a[i])
  /\ showBreakdown' = [showBreakdown EXCEPT ![i] = ~ @]
  /\ UNCHANGED <<toolOutput, isLoading, mealData, error, view, effectPending,
                 serverVars, displayVars, calls>>

PresenterNext ==
  \/ \E env \in PresentedEnvelopes : EnvelopeArrives(env)
  \/ RunLoadingEffect
  \/ \E i \in 1..MaxMeals : ToggleBreakdown(i)

PresenterSpec == PresenterInit /\ [][PresenterNext]_vars

\* the step that runs a pending effect: while an effect is pending no envelope
\* is taken and no button is pressed, so the only step that clears
\* effectPending is RunLoadingEffect
EffectRuns == effectPending /\ effectPending' = FALSE

\* every step of the presenter that clears effectPending is RunLoadingEffect
EffectRunsIsTheEffect == [][EffectRuns => RunLoadingEffect]_vars

\* React runs the effect of a committed render before it handles anything
\* else: a pending effect is run
FairPresenterSpec == PresenterSpec /\ WF_effectPending(EffectRuns)

\* the breakdown panel of the card at position i is in the page
PanelShown(i) ==
  /\ i \in 1..Len(showBreakdown)
  /\ showBreakdown[i]
  /\ HasMultipleIngredients(DeriveMeals(mealData).a[i])

\* the toggle button of the card at position i is in the page
ToggleOffered(i) ==
  /\ i \in 1..Len(showBreakdown)
  /\ HasMultipleIngredients(DeriveMeals(mealData).a[i])

(***************************************************************************)
(* The analyze_food tool                                                   *)
(***************************************************************************)
FoodDescriptions == {"100g blueberries", "pizza and burger", "Big Mac meal"}

\* the analyzedData values the input schema admits
AnalyzedData ==
  {Undef} \cup
  {Obj([dailyTotals |-> d, loggedMeals |-> m]) :
     d \in {DailyTotals, Nutrients(0, 0, 0, 0)}, m \in MealLists}

\* the arguments the input schema admits
Requests == [foodDescription : FoodDescriptions, analyzedData : AnalyzedData]

\* widgetMeta(macrosWidget)
WidgetMeta ==
  [outputTemplate |-> "ui://widget/macros-template.html",
   invoking |-> "Analyzing food nutrition...",
   invoked |-> "Food analysis complete",
   widgetAccessible |-> FALSE,
   resultCanProduceWidget |-> TRUE]

DeferredError ==
  "Please call this tool with the analyzedData parameter containing the analyzed meal data."

\* mutant: an error envelope carries the template alone as metadata
Envelope_templateOnlyOnError(text, sc) ==
  [content |-> <<[type |-> "text", text |-> text]>>,
   structuredContent |-> sc,
   meta |-> IF HasKey("error", sc)
            THEN [outputTemplate |-> WidgetMeta.outputTemplate]
            ELSE WidgetMeta]

Envelope(text, sc) ==
  [content |-> <<[type |-> "text", text |-> text]>>,
   structuredContent |-> sc,
   meta |-> WidgetMeta]

\* mutant: an empty loggedMeals list is not passed through
AnalyzeFoodHandler_nonEmptyOnly(req) ==
  LET ad == req.analyzedData
  IN  IF /\ Truthy(OptGet(ad, "loggedMeals"))
         /\ LengthOf(Get(ad, "loggedMeals")) > 0
         /\ Truthy(OptGet(ad, "dailyTotals"))
      THEN [strategy |-> "Passthrough",
            response |->
              Envelope(<<"Food analyzed: ", req.foodDescription>>,
                       Obj([dailyTotals |-> Get(ad, "dailyTotals"),
                            loggedMeals |-> Get(ad, "loggedMeals")]))]
      ELSE [strategy |-> "Deferred",
            response |->
              Envelope(<<"Please analyze ", req.foodDescription>>,
                       Obj([foodDescription |-> Str(req.foodDescription),
                            error |-> Str(DeferredError)]))]

\* mutant: the passed-through content also echoes the description
AnalyzeFoodHandler_echoesDescription(req) ==
  LET ad == req.analyzedData
  IN  IF Truthy(OptGet(ad, "loggedMeals")) /\ Truthy(OptGet(ad, "dailyTotals"))
      THEN [strategy |-> "Passthrough",
            response |->
              Envelope(<<"Food analyzed: ", req.foodDescription>>,
                       Obj([foodDescription |-> Str(req.foodDescription),
                            dailyTotals |-> Get(ad, "dailyTotals"),
                            loggedMeals |-> Get(ad, "loggedMeals")]))]
      ELSE [strategy |-> "Deferred",
            response |->
              Envelope(<<"Please analyze ", req.foodDescription>>,
                       Obj([foodDescription |-> Str(req.foodDescription),
                            error |-> Str(DeferredError)]))]

\* the tool callback: the branch taken and the envelope returned
AnalyzeFoodHandler(req) ==
  LET ad == req.analyzedData
  IN  IF Truthy(OptGet(ad, "loggedMeals")) /\ Truthy(OptGet(ad, "dailyTotals"))
      THEN [strategy |-> "Passthrough",
            response |->
              Envelope(<<"Food analyzed: ", req.foodDescription>>,
                       Obj([dailyTotals |-> Get(ad, "dailyTotals"),
                            loggedMeals |-> Get(ad, "loggedMeals")]))]
      ELSE [strategy |-> "Deferred",
            response |->
              Envelope(<<"Please analyze ", req.foodDescription>>,
                       Obj([foodDescription |-> Str(req.foodDescription),
                            error |-> Str(DeferredError)]))]

(***************************************************************************)
(* The analyze_food tool of src/app/mcp/route.ts                           *)
(***************************************************************************)
\* the tool callback of route.ts: no analysis, the description is echoed
PromptHandler(req) ==
  [strategy |-> "Prompt",
   response |->
     Envelope(<<"Food to analyze: ", req.foodDescription>>,
              Obj([foodDescription |-> Str(req.foodDescription)]))]

(***************************************************************************)
(* The analyze_food tool that calls the inference service                  *)
(***************************************************************************)
\* process.env.OPENAI_API_KEY
ApiKeys == {Undef, Str(""), Str("sk-live")}

MissingKeyError ==
  "OpenAI API key not configured. Please set OPENAI_API_KEY environment variable."

UpstreamDefaultError == "Failed to process food data"

InvalidResponseError == "Invalid response format from AI. Please try again."

\* messages of the errors the runtime raises
FetchFailedMessage == "fetch failed"
SyntaxErrorMessage == "Unexpected token in JSON"
TypeErrorMessage == "Cannot read properties of undefined"

\* a string holding the JSON serialisation of v
JsonText(v) == [t |-> "json", v |-> v]

\* an expression that raised an Error with message msg
Thrown(msg) == [raised |-> TRUE, value |-> Str(msg)]

\* JSON.parse(x), and response.json() on a body x
JSONParse(x) == IF x.t = "json" THEN Returned(x.v) ELSE Thrown(SyntaxErrorMessage)

\* the objects the service can write into message.content
ReplyData ==
  {ObjOf([dailyTotals |-> d, loggedMeals |-> m, notes |-> n]) :
     d \in {Absent, Null, DailyTotals},
     m \in {Absent, MealList(0), MealList(MaxMeals)},
     n \in {Absent, Str("estimated")}}

\* the body of a chat completion whose message.content is c
Completion(c) ==
  JsonText(Obj([choices |-> Arr(<<Obj([message |-> Obj([content |-> c])])>>)]))

\* bodies of replies with a success status
OkBodies ==
  {Str("<html>Bad gateway</html>"), JsonText(Obj(<<>>)),
   Completion(Str("Sorry, I cannot help with that."))}
    \cup {Completion(JsonText(d)) : d \in ReplyData}

\* bodies of replies with a non-success status
ErrorBodies ==
  {Str("<html>Bad gateway</html>"), JsonText(Obj(<<>>)),
   JsonText(Obj([error |-> Obj([message |-> Str("")])])),
   JsonText(Obj([error |-> Obj([message |-> Str("Rate limit reached")])]))}

\* outcomes of the fetch: it rejects, or resolves with a status and a body
Replies ==
  {[kind |-> "network"]}
    \cup {[kind |-> "http", ok |-> TRUE, body |-> b] : b \in OkBodies}
    \cup {[kind |-> "http", ok |-> FALSE, body |-> b] : b \in ErrorBodies}

\* responseData.choices[0].message.content
CompletionContent(rd) ==
  LET choices == Get(rd, "choices")
      first == IF IsArray(choices) /\ Len(choices.a) > 0 THEN choices.a[1] ELSE Undef
      message == Get(first, "message")
  IN  IF Nullish(choices) \/ Nullish(first) \/ Nullish(message)
      THEN Thrown(TypeErrorMessage)
      ELSE Returned(Get(message, "content"))

\* mutant: the error envelope also carries an empty meal list
CaughtEnvelope_withEmptyMeals(req, msg) ==
  [strategy |-> "Caught",
   response |->
     Envelope(<<"Error processing food analysis request: ", req.foodDescription>>,
              Obj([error |-> msg, loggedMeals |-> Arr(<<>>)]))]

\* the catch block: the envelope for a caught Error
CaughtEnvelope(req, msg) ==
  [strategy |-> "Caught",
   response |->
     Envelope(<<"Error processing food analysis request: ", req.foodDescription>>,
              Obj([error |-> msg]))]

\* mutant: the fields of the reply are returned without the validation
LiveBody_noValidation(req, reply) ==
  IF reply.kind = "network" THEN Thrown(FetchFailedMessage)
  ELSE IF ~ reply.ok
  THEN LET errorData == JSONParse(reply.body)
       IN  IF errorData.raised THEN errorData
           ELSE [raised |-> TRUE,
                 value |-> OrElse(OptGet(Get(errorData.value, "error"), "message"),
                                  Str(UpstreamDefaultError))]
  ELSE LET responseData == JSONParse(reply.body)
           content == CompletionContent(responseData.value)
           data == JSONParse(content.value)
       IN  IF responseData.raised THEN responseData
           ELSE IF content.raised THEN content
           ELSE IF data.raised THEN data
           ELSE Returned(Obj([dailyTotals |-> Get(data.value, "dailyTotals"),
                              loggedMeals |-> Get(data.value, "loggedMeals")]))

\* the try block after the fetch: the structuredContent it returns, or the
\* Error it throws
LiveBody(req, reply) ==
  IF reply.kind = "network" THEN Thrown(FetchFailedMessage)
  ELSE IF ~ reply.ok
  THEN LET errorData == JSONParse(reply.body)
       IN  IF errorData.raised THEN errorData
           ELSE [raised |-> TRUE,
                 value |-> OrElse(OptGet(Get(errorData.value, "error"), "message"),
                                  Str(UpstreamDefaultError))]
  ELSE LET responseData == JSONParse(reply.body)
           content == CompletionContent(responseData.value)
           data == JSONParse(content.value)
       IN  IF responseData.raised THEN responseData
           ELSE IF content.raised THEN content
           ELSE IF data.raised THEN data
           ELSE IF ~ Truthy(Get(data.value, "dailyTotals"))
                   \/ ~ Truthy(Get(data.value, "loggedMeals"))
                THEN Thrown(InvalidResponseError)
           ELSE Returned(Obj([dailyTotals |-> Get(data.value, "dailyTotals"),
                              loggedMeals |-> Get(data.value, "loggedMeals")]))

\* mutant: the work after the fetch is done outside the try block
LiveResume_noCatch(req, reply) ==
  LET body == LiveBody(req, reply)
  IN  IF body.raised
      THEN [strategy |-> "Escaped", response |-> Undef]
      ELSE [strategy |-> "Live",
            response |->
              Envelope(<<"Food analyzed: ", req.foodDescription>>, body.value)]

\* the callback from the resolution of the fetch to its return
LiveResume(req, reply) ==
  LET body == LiveBody(req, reply)
  IN  IF body.raised
      THEN CaughtEnvelope(req, body.value)
      ELSE [strategy |-> "Live",
            response |->
              Envelope(<<"Food analyzed: ", req.foodDescription>>, body.value)]

\* the return of the callback when no key is configured
MissingKeyEnvelope ==
  [strategy |-> "CredentialMissing",
   response |->
     Envelope(<<"Error: ", MissingKeyError>>, Obj([error |-> Str(MissingKeyError)]))]

(***************************************************************************)
(* The tool server as a state machine                                      *)
(***************************************************************************)
WidgetMounted ==
  /\ toolOutput = Null
  /\ isLoading = TRUE
  /\ mealData = Null
  /\ error = Undef
  /\ view = [state |-> "Loading", message |-> Undef, blocks |-> {"Spinner"},
             cards |-> <<>>]
  /\ effectPending = TRUE
  /\ showBreakdown = <<>>

\* the three registrations of the tool found in the sources
Routes == {"page", "live", "mcp"}

\* the arguments that reach the callback of a route: only the page route's
\* input schema has analyzedData
RequestsOf(r) ==
  IF r = "page" THEN Requests
  ELSE {req \in Requests : req.analyzedData = Undef}

\* the callback has returned, or an exception has left it
Handled ==
  strategy \in {"Passthrough", "Deferred", "Prompt", "CredentialMissing",
                "Live", "Caught", "Escaped"}

ServerInit ==
  /\ request = Undef
  /\ response = Undef
  /\ strategy = "none"
  /\ route \in Routes
  /\ apiKey \in ApiKeys
  /\ fetches = 0
  /\ upstream = Undef
  /\ WidgetMounted
  /\ DisplayIdle
  /\ CallsIdle

\* the host invokes the tool
CallTool(req) ==
  /\ strategy \notin {"pending", "awaiting"}
  /\ req \in RequestsOf(route)
  /\ request' = req
  /\ strategy' = "pending"
  /\ fetches' = 0
  /\ upstream' = Undef
  /\ UNCHANGED <<response, route, apiKey, clientVars, displayVars, calls>>

\* the callback of page.tsx runs to its return
AnalyzeFood ==
  /\ strategy = "pending"
  /\ route = "page"
  /\ LET h == AnalyzeFoodHandler(request)
     IN  /\ strategy' = h.strategy
         /\ response' = h.response
  /\ UNCHANGED <<request, route, apiKey, fetches, upstream, clientVars, displayVars, calls>>

\* the callback of route.ts runs to its return
AnalyzeFoodPrompt ==
  /\ strategy = "pending"
  /\ route = "mcp"
  /\ LET h == PromptHandler(request)
     IN  /\ strategy' = h.strategy
         /\ response' = h.response
  /\ UNCHANGED <<request, route, apiKey, fetches, upstream, clientVars, displayVars, calls>>

\* mutant: only an unset key counts as missing, an empty one is sent
AnalyzeFoodLive_unsetOnly ==
  /\ strategy = "pending"
  /\ route = "live"
  /\ IF apiKey = Undef
     THEN /\ strategy' = MissingKeyEnvelope.strategy
          /\ response' = MissingKeyEnvelope.response
          /\ UNCHANGED fetches
     ELSE /\ strategy' = "awaiting"
          /\ fetches' = fetches + 1
          /\ UNCHANGED response
  /\ UNCHANGED <<request, route, apiKey, upstream, clientVars, displayVars, calls>>

\* the live callback runs to its first await: it returns at once without a
\* key, and otherwise sends the request to the service
AnalyzeFoodLive ==
  /\ strategy = "pending"
  /\ route = "live"
  /\ IF ~ Truthy(apiKey)
     THEN /\ strategy' = MissingKeyEnvelope.strategy
          /\ response' = MissingKeyEnvelope.response
          /\ UNCHANGED fetches
     ELSE /\ strategy' = "awaiting"
          /\ fetches' = fetches + 1
          /\ UNCHANGED response
  /\ UNCHANGED <<request, route, apiKey, upstream, clientVars, displayVars, calls>>

\* mutant: a failed attempt is sent again once
UpstreamReplies_retriesOnFailure(reply) ==
  /\ strategy = "awaiting"
  /\ upstream' = reply
  /\ LET h == LiveResume(request, reply)
     IN  IF h.strategy = "Caught" /\ fetches < 2
         THEN /\ strategy' = "awaiting"
              /\ fetches' = fetches + 1
              /\ UNCHANGED response
         ELSE /\ strategy' = h.strategy
              /\ response' = h.response
              /\ UNCHANGED fetches
  /\ UNCHANGED <<request, route, apiKey, clientVars, displayVars, calls>>

\* the fetch settles and the live callback runs to its return
UpstreamReplies(reply) ==
  /\ strategy = "awaiting"
  /\ upstream' = reply
  /\ LET h == LiveResume(request, reply)
     IN  /\ strategy' = h.strategy
         /\ response' = IF h.strategy = "Escaped" THEN response ELSE h.response
  /\ UNCHANGED <<request, route, apiKey, fetches, clientVars, displayVars, calls>>

ServerNext ==
  \/ \E req \in Requests : CallTool(req)
  \/ AnalyzeFood
  \/ AnalyzeFoodPrompt
  \/ AnalyzeFoodLive
  \/ \E reply \in Replies : UpstreamReplies(reply)

ServerSpec == ServerInit /\ [][ServerNext]_vars

(***************************************************************************)
(* The tool's responses delivered to the widget                            *)
(***************************************************************************)
\* where the host puts the structuredContent of a response in toolOutput:
\* the paths the widget reads
Placements == {"self", "structuredContent", "result"}

Placed(sc, p) ==
  CASE p = "self" -> sc
    [] p = "structuredContent" -> Obj([structuredContent |-> sc])
    [] p = "result" -> Obj([result |-> Obj([structuredContent |-> sc])])

\* the host hands the structuredContent of the last response to the widget
Deliver(p) ==
  /\ Handled
  /\ strategy # "Escaped"
  /\ ~ effectPending
  /\ view.state # "Crash"
  /\ toolOutput' = Placed(response.structuredContent, p)
  /\ LET r == Render(toolOutput', isLoading)
     IN  /\ mealData' = r.mealData
         /\ error' = r.error
         /\ view' = r.view
         /\ effectPending' = (r.view.state # "Crash")
         /\ showBreakdown' = MountCards(showBreakdown, r)
  /\ UNCHANGED <<isLoading, serverVars, displayVars, calls>>

DeliveryNext ==
  \/ ServerNext
  \/ RunLoadingEffect
  \/ \E p \in Placements : Deliver(p)

DeliverySpec == ServerInit /\ [][DeliveryNext]_vars

(***************************************************************************)
(* The nutrient grid of one card                                           *)
(***************************************************************************)
\* a Nutrients object is handed to a card that has not rendered it yet
RoundingInit ==
  /\ halves \in [NutrientFields -> HalfValues]
  /\ displayed = <<>>
  /\ WidgetMounted
  /\ ServerIdle
  /\ CallsIdle

\* the card renders {Math.round(...)} for each of the four fields
ShowNutrients ==
  /\ displayed = <<>>
  /\ displayed' = [k \in NutrientFields |-> NumberText(MathRound(halves[k]))]
  /\ UNCHANGED <<halves, clientVars, serverVars, calls>>

RoundingNext == ShowNutrients

RoundingSpec == RoundingInit /\ [][RoundingNext]_vars

(***************************************************************************)
(* The tool server under concurrent requests                               *)
(***************************************************************************)
\* what the callback of the route returns for req when it runs alone, reply
\* being what its fetch settles with
Alone(req, reply) ==
  CASE route = "page" -> AnalyzeFoodHandler(req)
    [] route = "mcp" -> PromptHandler(req)
    [] route = "live" /\ ~ Truthy(apiKey) -> MissingKeyEnvelope
    [] OTHER -> LiveResume(req, reply)

\* the requests and the replies tried together: every description, with
\* and without a complete analyzedData, and every kind of reply
ConcurrentRequests ==
  {req \in Requests :
     req.analyzedData \in
       {Undef, Obj([dailyTotals |-> DailyTotals, loggedMeals |-> MealList(MaxMeals)])}}

ConcurrentReplies ==
  {reply \in Replies :
     \/ reply.kind = "network"
     \/ ~ reply.ok
     \/ reply.body \notin {Completion(JsonText(d)) : d \in ReplyData}
     \/ \E d \in ReplyData :
          ~ HasKey("notes", d) /\ reply.body = Completion(JsonText(d))}

ConcurrentInit ==
  /\ request = Undef
  /\ response = Undef
  /\ strategy = "none"
  /\ route \in Routes
  /\ apiKey \in ApiKeys
  /\ fetches = 0
  /\ upstream = Undef
  /\ WidgetMounted
  /\ DisplayIdle
  /\ CallsIdle

\* the host invokes the tool while other invocations may be in progress
Invoke(c, req) ==
  /\ calls[c].strategy \notin {"pending", "awaiting"}
  /\ req \in RequestsOf(route)
  /\ calls' = [calls EXCEPT ![c] = [IdleCall EXCEPT !.request = req,
                                                     !.strategy = "pending"]]
  /\ UNCHANGED <<serverVars, clientVars, displayVars>>

\* the callback of invocation c runs to its return or to its await
RunCallback(c) ==
  /\ calls[c].strategy = "pending"
  /\ IF route = "live" /\ Truthy(apiKey)
     THEN calls' = [calls EXCEPT ![c].strategy = "awaiting",
                                 ![c].fetches = @ + 1]
     ELSE LET h == Alone(calls[c].request, Undef)
          IN  calls' = [calls EXCEPT ![c].strategy = h.strategy,
                                     ![c].response = h.response]
  /\ UNCHANGED <<serverVars, clientVars, displayVars>>

\* mutant: the description is kept in a variable of the module, which the
\* invocation that started last has overwritten
Settle_sharedDescription(c, reply) ==
  /\ calls[c].strategy = "awaiting"
  /\ LET last == CHOOSE d \in Calls :
                   \A e \in Calls : calls[e].strategy = "awaiting" => d >= e
         h == LiveResume(calls[last].request, reply)
     IN  calls' = [calls EXCEPT ![c].strategy = h.strategy,
                                ![c].response = h.response,
                                ![c].upstream = reply]
  /\ UNCHANGED <<serverVars, clientVars, displayVars>>

\* the fetch of invocation c settles and its callback runs to its return
Settle(c, reply) ==
  /\ calls[c].strategy = "awaiting"
  /\ LET h == LiveResume(calls[c].request, reply)
     IN  calls' = [calls EXCEPT ![c].strategy = h.strategy,
                                ![c].response = h.response,
                                ![c].upstream = reply]
  /\ UNCHANGED <<serverVars, clientVars, displayVars>>

ConcurrentNext ==
  \/ \E c \in Calls : \E req \in ConcurrentRequests : Invoke(c, req)
  \/ \E c \in Calls : RunCallback(c)
  \/ \E c \in Calls : \E reply \in ConcurrentReplies : Settle(c, reply)

ConcurrentSpec == ConcurrentInit /\ [][ConcurrentNext]_vars

TypeOK ==
  /\ toolOutput.t \in {"undefined", "null", "string", "object"}
  /\ isLoading \in BOOLEAN
  /\ view.state \in {"Error", "Loading", "Empty", "Ready", "Crash"}
  /\ effectPending \in BOOLEAN
  /\ strategy \in {"none", "pending", "awaiting"} \/ Handled
  /\ route \in Routes
  /\ apiKey \in ApiKeys
  /\ fetches \in 0..1
  /\ showBreakdown \in Seq(BOOLEAN)
  /\ Len(showBreakdown) = IF view.state = "Ready" THEN Len(DeriveMeals(mealData).a) ELSE 0

(***************************************************************************)
(* Properties                                                              *)
(***************************************************************************)
\* v is a string with at least one character
NonEmptyString(v) == v.t = "string" /\ v.s # ""

\* C1: the MealData of a render is exactly the object at the first path, in
\* the order result.structuredContent, structuredContent, result, envelope
\* itself (when it has loggedMeals or dailyTotals), that holds an object;
\* objects at later paths contribute nothing.
C1_FirstPathWins ==
  LET rsc == OptGet(OptGet(toolOutput, "result"), "structuredContent")
      sc == OptGet(toolOutput, "structuredContent")
      res == OptGet(toolOutput, "result")
  IN  /\ rsc.t = "object" => mealData = rsc
      /\ Nullish(rsc) /\ sc.t = "object" => mealData = sc
      /\ Nullish(rsc) /\ Nullish(sc) /\ res.t = "object" => mealData = res
      /\ (/\ Nullish(rsc) /\ Nullish(sc) /\ Nullish(res)
          /\ toolOutput.t = "object"
          /\ (HasKey("loggedMeals", toolOutput) \/ HasKey("dailyTotals", toolOutput)))
         => mealData = toolOutput

\* C1 witness: objects at three paths at once, the first one returned
C1_Witness ==
  LET rsc == OptGet(OptGet(toolOutput, "result"), "structuredContent")
      sc == OptGet(toolOutput, "structuredContent")
  IN  /\ rsc.t = "object"
      /\ sc.t = "object"
      /\ sc # rsc
      /\ HasKey("loggedMeals", toolOutput)
      /\ mealData = rsc

\* C2 (as claimed): an error field holding any string, at the MealData level
\* or at the envelope level, puts every render in state Error showing it.
C2_AnyErrorString ==
  LET mdErr == OptGet(mealData, "error")
      envErr == OptGet(toolOutput, "error")
  IN  (mdErr.t = "string" \/ envErr.t = "string")
        => /\ view.state = "Error"
           /\ view.message.t = "string"
           /\ view.message \in {mdErr, envErr}

\* C2 (amended): an error field holding a non-empty string, at the MealData
\* level or at the envelope level, puts every render in state Error; the
\* string shown is the MealData-level one when that is non-empty, else the
\* envelope-level one.
C2_NonEmptyErrorString ==
  LET mdErr == OptGet(mealData, "error")
      envErr == OptGet(toolOutput, "error")
  IN  (NonEmptyString(mdErr) \/ NonEmptyString(envErr))
        => /\ view.state = "Error"
           /\ view.message = IF NonEmptyString(mdErr) THEN mdErr ELSE envErr

\* C2 witness: a render in Error although the MealData carries meals and
\* isLoading is set
C2_Witness ==
  /\ NonEmptyString(OptGet(mealData, "error"))
  /\ IsArray(OptGet(mealData, "loggedMeals"))
  /\ LengthOf(OptGet(mealData, "loggedMeals")) > 0
  /\ isLoading
  /\ view.state = "Error"

\* C3 (as claimed): every render shows exactly one of the four states, and
\* that state is the one the current envelope alone determines, whatever
\* isLoading was left behind by an earlier envelope or render.
C3_StateIsFunctionOfEnvelope ==
  LET md == ExtractMealData(toolOutput).value
      settled == LoadingEffect(toolOutput, DeriveMeals(md))
  IN  /\ view.state \in {"Error", "Loading", "Empty", "Ready"}
      /\ mealData = md
      /\ view.state = Render(toolOutput, settled).view.state

\* C4 (as claimed): no error and at least one derived meal: state Ready.
C4_MealsMeanReady ==
  LET meals == DeriveMeals(mealData)
  IN  (~ Truthy(error) /\ IsArray(meals) /\ LengthOf(meals) >= 1)
        => view.state = "Ready"

\* C5 (as claimed): no error, no derived meals, foodDescription on the
\* envelope and no non-empty loggedMeals array on it: state Loading.
C5_PendingMeansLoading ==
  LET meals == DeriveMeals(mealData)
      top == OptGet(toolOutput, "loggedMeals")
  IN  (/\ ~ Truthy(error)
       /\ IsArray(meals) /\ LengthOf(meals) = 0
       /\ HasKey("foodDescription", toolOutput)
       /\ ~ (IsArray(top) /\ LengthOf(top) > 0))
        => view.state = "Loading"

\* C6 (as claimed): an envelope has arrived, no error, no derived meals and
\* the Loading heuristic does not apply: state Empty.
C6_NoMealsMeansEmpty ==
  LET meals == DeriveMeals(mealData)
      top == OptGet(toolOutput, "loggedMeals")
  IN  (/\ ~ Nullish(toolOutput)
       /\ ~ Truthy(error)
       /\ IsArray(meals) /\ LengthOf(meals) = 0
       /\ ~ (/\ HasKey("foodDescription", toolOutput)
             /\ ~ (IsArray(top) /\ LengthOf(top) > 0)))
        => view.state = "Empty"

\* C7 (as claimed): while the envelope is undefined or null the state is
\* Loading, on the first render and after the effect.
C7_NoEnvelopeMeansLoading ==
  Nullish(toolOutput) /\ ~ Truthy(error) => view.state = "Loading"

\* C8: an envelope that is absent, null or has nothing at any of the four
\* paths gives MealData null, and normalisation raises for no envelope.
C8_NoPathMeansNull ==
  LET rsc == OptGet(OptGet(toolOutput, "result"), "structuredContent")
      sc == OptGet(toolOutput, "structuredContent")
      res == OptGet(toolOutput, "result")
  IN  /\ (/\ Nullish(rsc) /\ Nullish(sc) /\ Nullish(res)
          /\ ~ HasKey("loggedMeals", toolOutput)
          /\ ~ HasKey("dailyTotals", toolOutput))
         => mealData = Null
      /\ ~ ExtractMealData(toolOutput).raised
      /\ view.state # "Crash"

\* C8 witness: an object envelope with a null structuredContent and other
\* fields, none of them a path
C8_Witness ==
  /\ toolOutput.t = "object"
  /\ HasKey("structuredContent", toolOutput)
  /\ HasKey("foodDescription", toolOutput)
  /\ HasKey("error", toolOutput)
  /\ mealData = Null

\* C9 (as claimed): the error is the MealData-level one whenever that is not
\* null, the empty string included, else the envelope-level one when that is
\* not null, else nothing.
C9_NullishCoalescing ==
  LET mdErr == OptGet(mealData, "error")
      envErr == OptGet(toolOutput, "error")
  IN  /\ ~ Nullish(mdErr) => error = mdErr
      /\ Nullish(mdErr) /\ ~ Nullish(envErr) => error = envErr
      /\ Nullish(mdErr) /\ Nullish(envErr) => Nullish(error)

\* C9 (amended): the error is the MealData-level one whenever that is truthy
\* (a non-empty string), else the envelope-level value whatever it is; a
\* truthy error leaves the extracted MealData what the paths give.
C9_FirstTruthyError ==
  LET mdErr == OptGet(mealData, "error")
      envErr == OptGet(toolOutput, "error")
  IN  /\ Truthy(mdErr) => error = mdErr
      /\ ~ Truthy(mdErr) => error = envErr
      /\ Truthy(error) => mealData = ExtractMealData(toolOutput).value

\* C9 witness: an empty MealData-level error gives way to the envelope's
C9_Witness ==
  /\ OptGet(mealData, "error") = Str("")
  /\ NonEmptyString(OptGet(toolOutput, "error"))
  /\ error = OptGet(toolOutput, "error")

\* C10 (as claimed): Passthrough is taken exactly when analyzedData has a
\* dailyTotals object and a non-empty loggedMeals list.
C10_PassthroughNeedsMeals ==
  LET ad == request.analyzedData
      lm == OptGet(ad, "loggedMeals")
  IN  strategy \in {"Passthrough", "Deferred"}
        => (strategy = "Passthrough"
              <=> (/\ OptGet(ad, "dailyTotals").t = "object"
                   /\ IsArray(lm) /\ LengthOf(lm) > 0))

\* C10 (amended): Passthrough is taken exactly when analyzedData is supplied,
\* its loggedMeals list empty or not; the response then carries the supplied
\* loggedMeals, and otherwise none.
C10_PassthroughIffSupplied ==
  strategy \in {"Passthrough", "Deferred"}
    => /\ strategy = "Passthrough" <=> request.analyzedData # Undef
       /\ HasKey("loggedMeals", response.structuredContent)
            <=> request.analyzedData # Undef

\* C10 witness: a request with an empty loggedMeals list, passed through
C10_Witness ==
  /\ strategy = "Passthrough"
  /\ OptGet(request.analyzedData, "loggedMeals") = MealList(0)
  /\ Get(response.structuredContent, "loggedMeals") = MealList(0)

\* C11: a response produced by Passthrough has a structuredContent equal to
\* the analyzedData of the request, key for key and meal for meal in the
\* same order, and has no error field.
C11_PassthroughEchoesAnalyzedData ==
  strategy = "Passthrough"
    => /\ response.structuredContent = request.analyzedData
       /\ ~ HasKey("error", response.structuredContent)

\* C11 witness: a request with MaxMeals meals passed through unchanged
C11_Witness ==
  /\ strategy = "Passthrough"
  /\ Get(request.analyzedData, "loggedMeals") = MealList(MaxMeals)
  /\ response.structuredContent = request.analyzedData

\* C12 (as claimed): a request without analyzedData handled while no
\* credential is configured gets the Deferred response: the description is
\* echoed, error is a non-empty string, and there are no dailyTotals and no
\* loggedMeals.
C12_DeferredWithoutCredential ==
  LET sc == response.structuredContent
  IN  Handled /\ request.analyzedData = Undef /\ ~ Truthy(apiKey)
        => /\ strategy = "Deferred"
           /\ Get(sc, "foodDescription") = Str(request.foodDescription)
           /\ NonEmptyString(Get(sc, "error"))
           /\ ~ HasKey("dailyTotals", sc)
           /\ ~ HasKey("loggedMeals", sc)

\* C12 (amended): without analyzedData and without a credential no handler
\* returns dailyTotals or loggedMeals and none calls the service; the
\* handler of page.tsx defers, echoing the description with the instruction
\* as error; the handler that calls the service returns only the
\* key-not-configured error, without the description; the handler of
\* route.ts echoes the description without an error.
C12_NoAnalysisWithoutCredential ==
  LET sc == response.structuredContent
  IN  Handled /\ request.analyzedData = Undef /\ ~ Truthy(apiKey)
        => /\ ~ HasKey("dailyTotals", sc)
           /\ ~ HasKey("loggedMeals", sc)
           /\ fetches = 0
           /\ route = "page"
                => /\ strategy = "Deferred"
                   /\ sc = Obj([foodDescription |-> Str(request.foodDescription),
                                error |-> Str(DeferredError)])
           /\ route = "live"
                => /\ strategy = "CredentialMissing"
                   /\ sc = Obj([error |-> Str(MissingKeyError)])
           /\ route = "mcp"
                => /\ strategy = "Prompt"
                   /\ sc = Obj([foodDescription |-> Str(request.foodDescription)])

\* C12 witness: the service handler has answered a request while the key is
\* the empty string
C12_Witness ==
  /\ route = "live"
  /\ apiKey = Str("")
  /\ strategy = "CredentialMissing"
  /\ request.analyzedData = Undef
  /\ NonEmptyString(Get(response.structuredContent, "error"))

\* the object parsed from message.content of a reply, undefined when the
\* reply has none
ParsedReply(reply) ==
  IF reply = Undef THEN Undef
  ELSE IF reply.kind = "http" /\ reply.ok
  THEN LET responseData == JSONParse(reply.body)
           content == CompletionContent(responseData.value)
           data == JSONParse(content.value)
       IN  IF responseData.raised \/ content.raised \/ data.raised
           THEN Undef
           ELSE data.value
  ELSE Undef

\* C13 (as claimed): a request without analyzedData handled while a
\* credential is configured has caused exactly one request to the service,
\* and when the reply has dailyTotals and loggedMeals the structuredContent
\* is exactly those two values.
C13_OneRequestWithCredential ==
  LET data == ParsedReply(upstream)
  IN  Handled /\ request.analyzedData = Undef /\ Truthy(apiKey)
        => /\ fetches = 1
           /\ HasKey("dailyTotals", data) /\ HasKey("loggedMeals", data)
                => response.structuredContent =
                     Obj([dailyTotals |-> Get(data, "dailyTotals"),
                          loggedMeals |-> Get(data, "loggedMeals")])

\* C13 (amended): only the handler that calls the service sends a request,
\* and with a credential it has sent exactly one when it returns, whatever
\* the outcome; it answers with the reply's dailyTotals and loggedMeals, and
\* nothing else of the reply, exactly when both are truthy in the reply.
C13_OneRequestPerLiveCall ==
  LET data == ParsedReply(upstream)
      complete == Truthy(Get(data, "dailyTotals")) /\ Truthy(Get(data, "loggedMeals"))
  IN  /\ fetches <= 1
      /\ route # "live" => fetches = 0
      /\ Handled /\ route = "live" /\ Truthy(apiKey)
           => /\ fetches = 1
              /\ upstream # Undef
              /\ strategy = "Live" <=> complete
              /\ strategy = "Live"
                   => response.structuredContent =
                        Obj([dailyTotals |-> Get(data, "dailyTotals"),
                             loggedMeals |-> Get(data, "loggedMeals")])

\* C13 witness: one request was sent and the reply, which also had a notes
\* field, was returned as dailyTotals and loggedMeals alone
C13_Witness ==
  /\ strategy = "Live"
  /\ fetches = 1
  /\ HasKey("notes", ParsedReply(upstream))
  /\ response.structuredContent =
       Obj([dailyTotals |-> DailyTotals, loggedMeals |-> MealList(MaxMeals)])

\* the message of the Error the handler meets on the reply, per failure
\* path; undefined for a reply that passes the validation
FailureMessage(reply) ==
  LET data == ParsedReply(reply)
  IN  IF reply.kind = "network" THEN Str(FetchFailedMessage)
      ELSE IF reply.body.t # "json" THEN Str(SyntaxErrorMessage)
      ELSE IF ~ reply.ok
      THEN IF Truthy(OptGet(Get(reply.body.v, "error"), "message"))
           THEN Get(Get(reply.body.v, "error"), "message")
           ELSE Str(UpstreamDefaultError)
      ELSE IF ~ HasKey("choices", reply.body.v) THEN Str(TypeErrorMessage)
      ELSE IF data = Undef THEN Str(SyntaxErrorMessage)
      ELSE IF Truthy(Get(data, "dailyTotals")) /\ Truthy(Get(data, "loggedMeals"))
      THEN Undef
      ELSE Str(InvalidResponseError)

\* C14: every invocation that has ended has returned an envelope of the
\* normal shape and no exception has left the handler; when the credential
\* is missing, the service answers with a non-success status, its body
\* cannot be parsed, or the parsed reply fails the validation, the
\* structuredContent of that envelope is an object whose only field, error,
\* is the message of that failure.
C14_FailuresReturnErrorEnvelope ==
  Handled
    => /\ strategy # "Escaped"
       /\ DOMAIN response = {"content", "structuredContent", "meta"}
       /\ response.structuredContent.t = "object"
       /\ route = "live" /\ ~ Truthy(apiKey)
            => response.structuredContent = Obj([error |-> Str(MissingKeyError)])
       /\ route = "live" /\ Truthy(apiKey)
            => \/ /\ FailureMessage(upstream) = Undef
                  /\ strategy = "Live"
                  /\ ~ HasKey("error", response.structuredContent)
               \/ /\ NonEmptyString(FailureMessage(upstream))
                  /\ strategy = "Caught"
                  /\ response.structuredContent =
                       Obj([error |-> FailureMessage(upstream)])

\* C14 witness: the service answered with a non-success status and its
\* message is the error of the envelope
C14_Witness ==
  /\ strategy = "Caught"
  /\ upstream.kind = "http"
  /\ ~ upstream.ok
  /\ response.structuredContent = Obj([error |-> Str("Rate limit reached")])

\* C15: when the object parsed from the reply of the service has no
\* dailyTotals, no loggedMeals, or neither, the handler answers with the
\* invalid-response message as structuredContent.error and with neither
\* dailyTotals nor loggedMeals.
C15_IncompleteReplyIsInvalid ==
  LET data == ParsedReply(upstream)
      sc == response.structuredContent
  IN  /\ Handled
      /\ route = "live"
      /\ data # Undef
      /\ ~ HasKey("dailyTotals", data) \/ ~ HasKey("loggedMeals", data)
      => /\ strategy = "Caught"
         /\ Get(sc, "error") = Str(InvalidResponseError)
         /\ ~ HasKey("dailyTotals", sc)
         /\ ~ HasKey("loggedMeals", sc)

\* C15 witness: a reply with dailyTotals but without loggedMeals was
\* rejected with the invalid-response message
C15_Witness ==
  /\ strategy = "Caught"
  /\ Get(ParsedReply(upstream), "dailyTotals") = DailyTotals
  /\ ~ HasKey("loggedMeals", ParsedReply(upstream))
  /\ response.structuredContent = Obj([error |-> Str(InvalidResponseError)])

\* C16: every response of the tool, whichever handler and branch produced
\* it, is one envelope whose content is a list of exactly one text item,
\* whose structuredContent is an object and whose metadata is the fixed
\* widgetMeta(macrosWidget).
C16_OneEnvelopeShape ==
  Handled
    => /\ DOMAIN response = {"content", "structuredContent", "meta"}
       /\ Len(response.content) = 1
       /\ response.content[1].type = "text"
       /\ response.structuredContent.t = "object"
       /\ response.meta = WidgetMeta

\* C16 witness: the fetch was rejected and the envelope of the catch block
\* has the one text item and the fixed metadata
C16_Witness ==
  /\ strategy = "Caught"
  /\ upstream = [kind |-> "network"]
  /\ Len(response.content) = 1
  /\ response.structuredContent = Obj([error |-> Str(FetchFailedMessage)])
  /\ response.meta = WidgetMeta

\* loggedMeals of md is a list of meals that each have the ingredients and
\* the total_nutrients MealCard reads
WellFormedMeals(md) ==
  LET lm == OptGet(md, "loggedMeals")
  IN  /\ IsArray(lm)
      /\ \A i \in 1..LengthOf(lm) :
           /\ HasKey("ingredients", lm.a[i])
           /\ HasKey("total_nutrients", lm.a[i])

\* C17 (as claimed): no render throws, and an envelope without an error
\* string whose loggedMeals is absent, not a list, or holds a meal without
\* ingredients or total_nutrients is rendered as Loading or Empty.
C17_MalformedDataDegrades ==
  /\ view.state # "Crash"
  /\ ~ Truthy(error) /\ ~ WellFormedMeals(mealData)
       => view.state \in {"Loading", "Empty"}

\* C18 (as claimed): in the render of an envelope that has just arrived and
\* is shown as Ready, the breakdown panel of every meal is collapsed.
C18_ArrivalCollapsesPanels ==
  effectPending /\ view.state = "Ready"
    => \A i \in 1..Len(showBreakdown) : ~ PanelShown(i)

\* C19 (as claimed): panel and toggle are in the page only for a meal with
\* more than one ingredient; a card that is mounted starts collapsed; and a
\* panel that was not shown is shown after a step only if that step is the
\* user's toggle, never the arrival of an envelope.
C19_PanelsOpenOnlyByToggle ==
  [][\A i \in 1..MaxMeals + 1 :
       /\ (PanelShown(i) \/ ToggleOffered(i))
            => Len(Get(DeriveMeals(mealData).a[i], "ingredients").a) > 1
       /\ i > Len(showBreakdown) /\ i <= Len(showBreakdown')
            => ~ showBreakdown'[i]
       /\ ~ PanelShown(i) /\ PanelShown(i)'
            => /\ toolOutput' = toolOutput
               /\ ~ effectPending /\ ~ effectPending'
               /\ showBreakdown' = [showBreakdown EXCEPT ![i] = TRUE]]_vars

\* C20 (as claimed): in state Ready the daily totals block is in the page
\* exactly when the MealData has dailyTotals.
C20_TotalsShownIffPresent ==
  view.state = "Ready"
    => ("DailyTotals" \in view.blocks <=> Truthy(OptGet(mealData, "dailyTotals")))

\* C29: the structuredContent of a response never has nutrition data and an
\* error together, and has dailyTotals exactly when it has loggedMeals.
C29_DataXorError ==
  LET sc == response.structuredContent
  IN  Handled
        => /\ HasKey("dailyTotals", sc) <=> HasKey("loggedMeals", sc)
           /\ ~ (HasKey("error", sc) /\ HasKey("loggedMeals", sc))
           /\ ~ (HasKey("error", sc) /\ HasKey("dailyTotals", sc))

\* C29 witness: a reply that had loggedMeals but a null dailyTotals was
\* answered with an error and none of the reply's data
C29_Witness ==
  /\ strategy = "Caught"
  /\ Get(ParsedReply(upstream), "loggedMeals") = MealList(MaxMeals)
  /\ HasKey("dailyTotals", ParsedReply(upstream))
  /\ DOMAIN response.structuredContent.f = {"error"}

\* the structuredContent of the Deferred response for the description fd
DeferredContent(fd) ==
  Obj([foodDescription |-> Str(fd), error |-> Str(DeferredError)])

\* C28: while toolOutput is a Deferred response of the server, at any of
\* the three places the widget reads, every render is in state Error and
\* shows the deferral instruction; none is in Loading.
C28_DeferredShowsError ==
  \A p \in Placements :
    \A fd \in FoodDescriptions :
      toolOutput = Placed(DeferredContent(fd), p)
        => /\ view.state = "Error"
           /\ view.message = Str(DeferredError)

\* C28 witness: the server deferred, the response was delivered as the
\* envelope itself and the effect has run
C28_Witness ==
  /\ strategy = "Deferred"
  /\ toolOutput = response.structuredContent
  /\ mealData = Null
  /\ ~ effectPending
  /\ isLoading
  /\ view.state = "Error"

\* C27: a toggle on the card at position i negates the flag of that card
\* (so a second toggle restores it) and leaves the flags of the other
\* cards, the MealData, the envelope and the rendered state as they were.
C27_TogglesAreIndependent ==
  [][\A i \in 1..MaxMeals :
       ToggleBreakdown(i)
         => /\ Len(showBreakdown') = Len(showBreakdown)
            /\ showBreakdown'[i] = ~ showBreakdown[i]
            /\ \A j \in 1..Len(showBreakdown) :
                 j # i => showBreakdown'[j] = showBreakdown[j]
            /\ UNCHANGED <<mealData, toolOutput, view, error>>]_vars

\* C27 witness: of two cards that both offer the toggle, the second is
\* expanded and the first is not
C27_Witness ==
  /\ view.state = "Ready"
  /\ Len(showBreakdown) >= 2
  /\ ToggleOffered(1) /\ ToggleOffered(2)
  /\ ~ showBreakdown[1]
  /\ showBreakdown[2]

\* the integer nearest to h / 2, a half going away from zero
RoundHalfAwayFromZero(h) ==
  IF h >= 0 THEN (h + 1) \div 2 ELSE -((1 - h) \div 2)

PriorityState(out) ==
  LET md == ExtractMealData(out).value
      meals == DeriveMeals(md)
      top == OptGet(out, "loggedMeals")
  IN  IF Truthy(ExtractError(md, out)) THEN "Error"
      ELSE IF out = Null THEN "Loading"
      ELSE IF /\ LengthOf(meals) = 0
              /\ HasKey("foodDescription", out)
              /\ ~ (IsArray(top) /\ LengthOf(top) > 0)
           THEN "Loading"
      ELSE IF LengthOf(meals) = 0 THEN "Empty"
      ELSE "Ready"

\* C23 (as claimed): a step that is not the arrival of an envelope never
\* takes the widget out of Loading.
C23_LoadingHoldsUntilArrival ==
  [][(view.state = "Loading" /\ ~ (~ effectPending /\ effectPending'))
       => view'.state = "Loading"]_vars

\* C24: once the effect has run for the envelope that arrived last, the
\* state shown is the one the priority rules give for that envelope alone,
\* whatever was delivered and shown before.
C24_SettlesOnLatestEnvelope ==
  ~ effectPending => view.state = PriorityState(toolOutput)

\* C24 witness: a foodDescription without meals has settled on Loading
C24_Witness ==
  /\ ~ effectPending
  /\ HasKey("foodDescription", toolOutput)
  /\ ~ HasKey("loggedMeals", toolOutput)
  /\ mealData = Null
  /\ isLoading
  /\ view.state = "Loading"

\* the envelope that has just been rendered, and has its effect pending,
\* calls for the state st
Arrived(st) ==
  /\ effectPending
  /\ toolOutput # Null
  /\ PriorityState(toolOutput) = st

\* C22: whatever was shown before, Ready included, an envelope without
\* meals that has arrived leads to Loading when it carries foodDescription
\* and to Empty when it does not, and an envelope with an error leads to
\* Error.
C22_LaterEnvelopeReverts ==
  /\ Arrived("Loading") ~> (~ effectPending /\ view.state = "Loading")
  /\ Arrived("Empty") ~> (~ effectPending /\ view.state = "Empty")
  /\ Arrived("Error") ~> (~ effectPending /\ view.state = "Error")

\* C22 witness: after a settled state that was not Loading, a
\* foodDescription without meals has arrived and is on its way to Loading
C22_Witness ==
  /\ Arrived("Loading")
  /\ ~ isLoading
  /\ HasKey("foodDescription", toolOutput)
  /\ view.state = "Empty"

\* invocation c has returned
Returns(c) ==
  calls[c].strategy \in {"Passthrough", "Deferred", "Prompt",
                         "CredentialMissing", "Live", "Caught"}

\* C25: under every interleaving each invocation returns what it would
\* return alone for its own request, the configured credential and its own
\* upstream reply; a step of one invocation changes the locals of no other
\* invocation, and nothing that invocations share is ever written.
C25_InvocationsAreIndependent ==
  [][/\ \A c \in Calls :
          Returns(c)'
            => LET alone == Alone(calls'[c].request, calls'[c].upstream)
               IN  /\ calls'[c].strategy = alone.strategy
                   /\ calls'[c].response = alone.response
     /\ \E c \in Calls : \A d \in Calls \ {c} : calls'[d] = calls[d]
     /\ UNCHANGED <<route, apiKey>>]_vars

\* C25 witness: the first invocation has returned the analysis of its own
\* description while the second, for another description, still waits for
\* its reply
C25_Witness ==
  /\ calls[1].strategy = "Live"
  /\ calls[2].strategy = "awaiting"
  /\ calls[1].request.foodDescription # calls[2].request.foodDescription
  /\ calls[1].response.content[1].text
       = <<"Food analyzed: ", calls[1].request.foodDescription>>

\* the text of the whole number held by v
WholeText(v) == [digits |-> IF v.n < 0 THEN -v.n ELSE v.n, minus |-> v.n < 0]

\* the cards show, in order, the meals of the list given and for each its
\* name, its total_nutrients as given and its ingredients in order
ShowsAsGiven(cards, given) ==
  /\ Len(cards) = Len(given)
  /\ \A i \in 1..Len(given) :
       LET meal == given[i]
           ingredients == Get(meal, "ingredients").a
       IN  /\ cards[i].name = Get(meal, "meal_name")
           /\ \A k \in NutrientFields :
                cards[i].totals[k] = WholeText(Get(Get(meal, "total_nutrients"), k))
           /\ Len(cards[i].lines) = Len(ingredients)
           /\ \A j \in 1..Len(ingredients) :
                /\ cards[i].lines[j].name = Get(ingredients[j], "name")
                /\ \A k \in NutrientFields :
                     cards[i].lines[j].nutrients[k]
                       = WholeText(Get(Get(ingredients[j], "nutrients"), k))

\* C26: after every step, a Ready page shows the meals of the envelope in
\* their order, each with its total_nutrients as given, whatever its
\* ingredients add up to, and its ingredients in their order; the MealData
\* is what the envelope holds; only an arrival replaces the envelope, and a
\* toggle changes neither the MealData nor the envelope.
C26_ShowsWhatItIsGiven ==
  [][/\ view'.state = "Ready"
          => ShowsAsGiven(view'.cards,
                          OptGet(ExtractMealData(toolOutput').value, "loggedMeals").a)
     /\ mealData' = ExtractMealData(toolOutput').value
     /\ toolOutput' # toolOutput => ~ effectPending /\ view.state # "Crash"
     /\ (\E i \in 1..MaxMeals : ToggleBreakdown(i))
          => UNCHANGED <<mealData, toolOutput, view>>]_vars

\* C26 witness: the first card shows 657 calories over one ingredient line
\* of 100, the second card is expanded, and the data are those delivered
C26_Witness ==
  /\ view.state = "Ready"
  /\ Len(view.cards) = 2
  /\ view.cards[1].totals.calories.digits = 657
  /\ Len(view.cards[1].lines) = 1
  /\ view.cards[1].lines[1].nutrients.calories.digits = 100
  /\ showBreakdown = <<FALSE, TRUE>>
  /\ mealData = toolOutput

====
